---- MODULE Spec2Model ----
(***************************************************************************)
(* A model of jsonpath/__init__.py (class JSONPath, version 1.0.2).        *)
(*                                                                         *)
(* Python strings are modelled as tuples of one-character strings, so that *)
(* the regular-expression passes of the compiler and the syntax dispatch   *)
(* of the evaluator are computed character by character.                   *)
(*                                                                         *)
(* JSON values are records [t, n, s, xs] with t the type: "null", "int"    *)
(* (n the number), "str" (s the characters), "list" and "dict" (xs the     *)
(* entries [k, v] in order: k is the key of a dict entry and empty for a   *)
(* list element; the keys of a dict are unique).  Fields a type does not   *)
(* use are 0 or empty.                                                     *)
(***************************************************************************)
EXTENDS Integers, Sequences, FiniteSets, TLC

VARIABLES
    subx,         \* JSONPath.subx: class attribute shared by all instances
    expr,         \* the expression the object was constructed from
    segments,     \* self.segments
    lpath,        \* self.lpath
    result_type,  \* self.result_type
    result,       \* self.result (sequential specification: the list itself)
    doc,          \* the document passed to the last parse call
    ret,          \* the list returned by the last parse call
    outcome,      \* "new" | "ready" | "returned" | name of the exception
    pc,           \* threads: position of each thread
    loc,          \* threads: locals of each thread
    heap,         \* parse threads: list objects created by self.result = []
    objs          \* compile threads: segments of the object of each thread

vars == <<subx, expr, segments, lpath, result_type, result, doc, ret,
          outcome, pc, loc, heap, objs>>

----------------------------------------------------------------------------
(* Characters and str methods                                              *)

DigitChars == <<"0", "1", "2", "3", "4", "5", "6", "7", "8", "9">>

DigitSet == {DigitChars[i] : i \in 1..10}

LetterSet ==
    {"a", "b", "c", "d", "e", "f", "g", "h", "i", "j", "k", "l", "m", "n",
     "o", "p", "q", "r", "s", "t", "u", "v", "w", "x", "y", "z", "B", "Q"}

\* the class \w of the re module, over the characters used here
WordSet == LetterSet \cup DigitSet \cup {"_"}

\* str.isdigit
isdigit(s) == Len(s) > 0 /\ \A i \in 1..Len(s) : s[i] \in DigitSet

DigitVal(c) == CHOOSE d \in 0..9 : DigitChars[d + 1] = c

\* int(s) for a string of decimal digits
RECURSIVE int(_)
int(s) ==
    IF Len(s) = 0 THEN 0
    ELSE 10 * int(SubSeq(s, 1, Len(s) - 1)) + DigitVal(s[Len(s)])

\* str(n) for n >= 0, as formatted by an f-string
RECURSIVE str(_)
str(n) ==
    IF n < 10 THEN <<DigitChars[n + 1]>>
    ELSE str(n \div 10) \o <<DigitChars[(n % 10) + 1]>>

\* str.startswith / str.endswith
startswith(s, p) == Len(s) >= Len(p) /\ SubSeq(s, 1, Len(p)) = p

endswith(s, p) ==
    Len(s) >= Len(p) /\ SubSeq(s, Len(s) - Len(p) + 1, Len(s)) = p

\* least index >= from at which character c occurs in s, 0 when there is none
RECURSIVE FindChar(_, _, _)
FindChar(s, c, from) ==
    IF from > Len(s) THEN 0
    ELSE IF s[from] = c THEN from
    ELSE FindChar(s, c, from + 1)

\* str.split(c) for a one-character separator
RECURSIVE split(_, _)
split(s, c) ==
    LET j == FindChar(s, c, 1)
    IN  IF j = 0 THEN <<s>>
        ELSE <<SubSeq(s, 1, j - 1)>> \o split(SubSeq(s, j + 1, Len(s)), c)

\* sub in s (substring test)
Contains(s, sub) ==
    \E i \in 1..(Len(s) - Len(sub) + 1) : SubSeq(s, i, i + Len(sub) - 1) = sub

SEP == ";"

----------------------------------------------------------------------------
(* The expression compiler: JSONPath._parse_expr and its callbacks         *)

EmptySubx == [Q |-> <<>>, B |-> <<>>]

\* REP_PICKUP_QUOTE = ['](.*?)[']: the first match in s, or 0
QuoteMatch(s) ==
    LET i == FindChar(s, "'", 1)
        j == IF i = 0 THEN 0 ELSE FindChar(s, "'", i + 1)
    IN  IF j = 0 THEN [at |-> 0, end |-> 0, group |-> <<>>]
        ELSE [at |-> i, end |-> j, group |-> SubSeq(s, i + 1, j - 1)]

\* REP_PICKUP_BRACKET = [\[](.*?)[\]]: the first match in s, or 0
BracketMatch(s) ==
    LET i == FindChar(s, "[", 1)
        j == IF i = 0 THEN 0 ELSE FindChar(s, "]", i + 1)
    IN  IF j = 0 THEN [at |-> 0, end |-> 0, group |-> <<>>]
        ELSE [at |-> i, end |-> j, group |-> SubSeq(s, i + 1, j - 1)]

\* _f_pickup_quote, the text it returns for the index n it read
QuotePlaceholder(n) == <<"#", "Q">> \o str(n)

\* _f_pickup_bracket, the text it returns for the index n it read
BracketPlaceholder(n) == <<".", "#", "B">> \o str(n)

\* REP_PICKUP_QUOTE.sub(self._f_pickup_quote, s) run without interruption
RECURSIVE PickupQuotes(_, _)
PickupQuotes(s, tab) ==
    LET m == QuoteMatch(s)
    IN  IF m.at = 0 THEN [s |-> s, tab |-> tab]
        ELSE LET n == Len(tab.Q)
                 r == PickupQuotes(SubSeq(s, m.end + 1, Len(s)),
                                   [tab EXCEPT !.Q = Append(@, m.group)])
             IN  [s |-> SubSeq(s, 1, m.at - 1) \o QuotePlaceholder(n) \o r.s,
                  tab |-> r.tab]

\* REP_PICKUP_BRACKET.sub(self._f_pickup_bracket, s) run without interruption
RECURSIVE PickupBrackets(_, _)
PickupBrackets(s, tab) ==
    LET m == BracketMatch(s)
    IN  IF m.at = 0 THEN [s |-> s, tab |-> tab]
        ELSE LET n == Len(tab.B)
                 r == PickupBrackets(SubSeq(s, m.end + 1, Len(s)),
                                     [tab EXCEPT !.B = Append(@, m.group)])
             IN  [s |-> SubSeq(s, 1, m.at - 1) \o BracketPlaceholder(n) \o r.s,
                  tab |-> r.tab]

\* REP_DOUBLEDOT.sub(";..;", s)
RECURSIVE SubDoubleDot(_)
SubDoubleDot(s) ==
    IF Len(s) = 0 THEN s
    ELSE IF Len(s) >= 2 /\ s[1] = "." /\ s[2] = "."
         THEN <<SEP, ".", ".", SEP>> \o SubDoubleDot(SubSeq(s, 3, Len(s)))
         ELSE <<s[1]>> \o SubDoubleDot(Tail(s))

\* REP_DOT.sub(";", s): a dot with no dot before it and no dot after it
SubDot(s) ==
    [i \in 1..Len(s) |->
        IF /\ s[i] = "."
           /\ (i = 1 \/ s[i - 1] # ".")
           /\ (i = Len(s) \/ s[i + 1] # ".")
        THEN SEP ELSE s[i]]

\* the number of leading digit characters of s from index from
RECURSIVE DigitRun(_, _)
DigitRun(s, from) ==
    IF from <= Len(s) /\ s[from] \in DigitSet THEN 1 + DigitRun(s, from + 1)
    ELSE 0

\* REP_PUTBACK_BRACKET.sub / REP_PUTBACK_QUOTE.sub: every #<mark>(\d+) is
\* replaced by table[int(group 1)]; the replacement text is not rescanned.
\* ok is FALSE when the callback raises IndexError.
RECURSIVE Putback(_, _, _)
Putback(s, mark, table) ==
    IF Len(s) = 0 THEN [ok |-> TRUE, s |-> s]
    ELSE LET d == IF Len(s) >= 3 /\ s[1] = "#" /\ s[2] = mark
                  THEN DigitRun(s, 3) ELSE 0
         IN  IF d = 0
             THEN LET r == Putback(Tail(s), mark, table)
                  IN  [ok |-> r.ok, s |-> <<s[1]>> \o r.s]
             ELSE LET n == int(SubSeq(s, 3, 2 + d))
                      r == Putback(SubSeq(s, 3 + d, Len(s)), mark, table)
                  IN  IF n + 1 > Len(table) THEN [ok |-> FALSE, s |-> <<>>]
                      ELSE [ok |-> r.ok, s |-> table[n + 1] \o r.s]

\* _f_putback_bracket over the whole string
PutbackBrackets(s, tab) == Putback(s, "B", tab.B)

\* _f_putback_quote over the whole string
PutbackQuotes(s, tab) == Putback(s, "Q", tab.Q)

\* lines 101-106 of _parse_expr and the split of __init__: what is done with
\* the string s once the placeholders are in place, reading the table tab
Finish(s, tab) ==
    LET b == PutbackBrackets(SubDot(SubDoubleDot(s)), tab)
        q == IF b.ok THEN PutbackQuotes(b.s, tab) ELSE b
        e == IF startswith(q.s, <<"$", SEP>>) THEN SubSeq(q.s, 3, Len(q.s))
             ELSE q.s
    IN  IF q.ok THEN [ok |-> TRUE, segments |-> split(e, SEP)]
        ELSE [ok |-> FALSE, segments |-> <<>>]

\* JSONPath.__init__(e) run without interruption on the table tab
Compile(e, tab) ==
    LET q == PickupQuotes(e, tab)
        b == PickupBrackets(q.s, q.tab)
        f == Finish(b.s, b.tab)
    IN  [ok |-> f.ok, segments |-> f.segments, tab |-> b.tab]

----------------------------------------------------------------------------
(* JSON values                                                             *)

JNull == [t |-> "null", n |-> 0, s |-> <<>>, xs |-> <<>>]

JInt(n) == [t |-> "int", n |-> n, s |-> <<>>, xs |-> <<>>]

JStr(s) == [t |-> "str", n |-> 0, s |-> s, xs |-> <<>>]

\* a list from the sequence of its elements
JList(vals) ==
    [t |-> "list", n |-> 0, s |-> <<>>,
     xs |-> [m \in 1..Len(vals) |-> [k |-> <<>>, v |-> vals[m]]]]

\* a dict from the sequence of its entries [k, v]
JDict(es) == [t |-> "dict", n |-> 0, s |-> <<>>, xs |-> es]

\* obj[m] for a list obj and 0 <= m < len(obj)
Elem(obj, m) == obj.xs[m + 1].v

\* len(obj) for a list or a dict
len(obj) == Len(obj.xs)

\* isinstance(obj, list) / isinstance(obj, dict)
IsList(obj) == obj.t = "list"

IsDict(obj) == obj.t = "dict"

\* k in obj, for a dict obj
HasKey(obj, k) == \E m \in 1..Len(obj.xs) : obj.xs[m].k = k

\* obj[k], for a dict obj that has the key k
Item(obj, k) == obj.xs[CHOOSE m \in 1..Len(obj.xs) : obj.xs[m].k = k].v

\* obj.get(k), for a dict obj
Get(obj, k) == IF HasKey(obj, k) THEN Item(obj, k) ELSE JNull

\* Children with the elements of a list counted from 1
Children_OneBased(obj) ==
    IF IsList(obj)
    THEN [m \in 1..Len(obj.xs) |-> [k |-> str(m), v |-> obj.xs[m].v]]
    ELSE IF IsDict(obj) THEN obj.xs
    ELSE <<>>

\* list(enumerate(obj)) for a list and list(obj.items()) for a dict, each
\* pair with the path segment the code formats for it; nothing otherwise
Children(obj) ==
    IF IsList(obj)
    THEN [m \in 1..Len(obj.xs) |-> [k |-> str(m - 1), v |-> obj.xs[m].v]]
    ELSE IF IsDict(obj) THEN obj.xs
    ELSE <<>>

\* f"{path}{JSONPath.SEP}{k}"
Extend(path, k) == path \o <<SEP>> \o k

----------------------------------------------------------------------------
(* The slice step: REP_SLICE_CONTENT and eval(f"obj[{step}]")              *)

\* -?\d*
IsSlicePart(p) ==
    LET body == IF Len(p) > 0 /\ p[1] = "-" THEN Tail(p) ELSE p
    IN  body = <<>> \/ isdigit(body)

\* REP_SLICE_CONTENT.fullmatch(step): ^(-?\d*)?:(-?\d*)?(:-?\d*)?$
IsSlice(step) ==
    LET parts == split(step, ":")
    IN  /\ Len(parts) \in {2, 3}
        /\ \A n \in 1..Len(parts) : IsSlicePart(parts[n])

\* one part of the slice as Python reads it: absent, an integer, or a
\* syntax error (a lone "-", or a literal with a leading zero)
SlicePart(p) ==
    LET neg == Len(p) > 0 /\ p[1] = "-"
        body == IF neg THEN Tail(p) ELSE p
    IN  IF p = <<>> THEN [kind |-> "none", v |-> 0]
        ELSE IF body = <<>> THEN [kind |-> "bad", v |-> 0]
        ELSE IF Len(body) > 1 /\ body[1] = "0" /\ int(body) # 0
             THEN [kind |-> "bad", v |-> 0]
        ELSE [kind |-> "int", v |-> IF neg THEN 0 - int(body) ELSE int(body)]

\* a bound of a slice clipped to a sequence of length n (slice.indices)
ClipBound(b, n, stride, dflt) ==
    IF b.kind = "none" THEN dflt
    ELSE LET x == IF b.v < 0 THEN b.v + n ELSE b.v
         IN  IF x < 0 THEN (IF stride < 0 THEN 0 - 1 ELSE 0)
             ELSE IF x >= n THEN (IF stride < 0 THEN n - 1 ELSE n)
             ELSE x

\* the indices start, start + stride, ... before stop
RECURSIVE Range(_, _, _)
Range(start, stop, stride) ==
    IF (stride > 0 /\ start >= stop) \/ (stride < 0 /\ start <= stop) THEN <<>>
    ELSE <<start>> \o Range(start + stride, stop, stride)

\* eval(f"obj[{step}]") on the enumerated pairs
SlicePairs(pairs, step) ==
    LET parts == split(step, ":")
        a == SlicePart(parts[1])
        b == SlicePart(parts[2])
        c == IF Len(parts) = 3 THEN SlicePart(parts[3])
             ELSE [kind |-> "none", v |-> 0]
        stride == IF c.kind = "none" THEN 1 ELSE c.v
        n == Len(pairs)
        start == ClipBound(a, n, stride, IF stride < 0 THEN n - 1 ELSE 0)
        stop == ClipBound(b, n, stride, IF stride < 0 THEN 0 - 1 ELSE n)
        idx == Range(start, stop, stride)
    IN  IF "bad" \in {a.kind, b.kind, c.kind}
        THEN [exc |-> "SyntaxError", pairs |-> <<>>]
        ELSE IF stride = 0 THEN [exc |-> "ValueError", pairs |-> <<>>]
        ELSE [exc |-> "none",
              pairs |-> [m \in 1..Len(idx) |-> pairs[idx[m] + 1]]]

----------------------------------------------------------------------------
(* The select step: REP_SELECT_CONTENT                                     *)

\* [\w.']+
IsSelectWord(w) ==
    Len(w) > 0 /\ \A n \in 1..Len(w) : w[n] \in WordSet \cup {".", "'"}

\* REP_SELECT_CONTENT.fullmatch(step): ^([\w.']+)(, ?[\w.']+)+$
IsSelect(step) ==
    LET parts == split(step, ",")
    IN  /\ Len(parts) >= 2
        /\ IsSelectWord(parts[1])
        /\ \A n \in 2..Len(parts) :
              \/ IsSelectWord(parts[n])
              \/ /\ Len(parts[n]) > 0
                 /\ parts[n][1] = " "
                 /\ IsSelectWord(Tail(parts[n]))

----------------------------------------------------------------------------
(* The filter step: REP_FILTER_CONTENT, _f_brackets and eval               *)

\* the alternatives of the lookahead of REP_FILTER_CONTENT
LookOps ==
    {<<"<", "=">>, <<">", "=">>, <<"=", "=">>, <<"!", "=">>, <<">">>, <<"<">>,
     <<" ", "i", "n">>, <<" ", "n", "o", "t">>, <<" ", "i", "s">>}

LookaheadAt(s, j) ==
    \E op \in LookOps :
        j + Len(op) - 1 <= Len(s) /\ SubSeq(s, j, j + Len(op) - 1) = op

\* least index >= from at which the lookahead holds, 0 when there is none
RECURSIVE FindLookahead(_, _)
FindLookahead(s, from) ==
    IF from > Len(s) THEN 0
    ELSE IF LookaheadAt(s, from) THEN from
    ELSE FindLookahead(s, from + 1)

\* the comparison operators of the predicates that are modelled
CmpOps ==
    {<<"<", "=">>, <<">", "=">>, <<"=", "=">>, <<"!", "=">>, <<">">>, <<"<">>}

\* s without its leading and trailing spaces
RECURSIVE Strip(_)
Strip(s) ==
    IF Len(s) > 0 /\ s[1] = " " THEN Strip(Tail(s))
    ELSE IF Len(s) > 0 /\ s[Len(s)] = " " THEN Strip(SubSeq(s, 1, Len(s) - 1))
    ELSE s

\* a decimal literal Python accepts
IsIntLiteral(s) == isdigit(s) /\ (Len(s) = 1 \/ s[1] # "0" \/ int(s) = 0)

\* The predicate text (step[2:-1]) as REP_FILTER_CONTENT.sub(_f_brackets)
\* and eval read it.  Three shapes are told apart:
\*   "len":   the text begins with len(@.<field>): the second alternative of
\*            the pattern matches, group(1) is None and _f_brackets raises
\*            AttributeError;
\*   "cmp":   @.<field><op><integer>: the first alternative matches the
\*            field up to the lookahead (spaces before the operator belong
\*            to the field), _f_brackets turns it into __obj["k1"]["k2"]..;
\*   "other": anything else; only texts that are not Python expressions are
\*            used in this shape, and eval raises SyntaxError for them.
Predicate(body) ==
    LET j == FindLookahead(body, 3)
        op2 == IF j > 0 /\ j + 1 <= Len(body) THEN SubSeq(body, j, j + 1)
               ELSE <<>>
        op == IF j = 0 THEN <<>>
              ELSE IF op2 \in CmpOps THEN op2
              ELSE <<body[j]>>
        lit == IF j = 0 THEN <<>>
               ELSE Strip(SubSeq(body, j + Len(op), Len(body)))
    IN  IF /\ startswith(body, <<"l", "e", "n", "(", "@", ".">>)
           /\ FindChar(body, ")", 7) > 0
        THEN [kind |-> "len", keys |-> <<>>, op |-> <<>>, n |-> 0]
        ELSE IF /\ startswith(body, <<"@", ".">>)
                /\ j > 0
                /\ op \in CmpOps
                /\ IsIntLiteral(lit)
        THEN [kind |-> "cmp", keys |-> split(SubSeq(body, 3, j - 1), "."),
              op |-> op, n |-> int(lit)]
        ELSE [kind |-> "other", keys |-> <<>>, op |-> <<>>, n |-> 0]

\* __obj["k1"]["k2"]..: the value, or ok = FALSE for KeyError / TypeError
RECURSIVE Subscripts(_, _)
Subscripts(obj, keys) ==
    IF keys = <<>> THEN [ok |-> TRUE, v |-> obj]
    ELSE IF IsDict(obj) /\ HasKey(obj, Head(keys))
         THEN Subscripts(Item(obj, Head(keys)), Tail(keys))
         ELSE [ok |-> FALSE, v |-> JNull]

\* <value> <op> <integer>: "True", "False", or "raise" (TypeError)
Compare(x, op, n) ==
    IF op = <<"=", "=">> THEN (IF x = JInt(n) THEN "True" ELSE "False")
    ELSE IF op = <<"!", "=">> THEN (IF x = JInt(n) THEN "False" ELSE "True")
    ELSE IF x.t # "int" THEN "raise"
    ELSE IF \/ op = <<">">> /\ x.n > n
            \/ op = <<"<">> /\ x.n < n
            \/ op = <<">", "=">> /\ x.n >= n
            \/ op = <<"<", "=">> /\ x.n <= n
         THEN "True" ELSE "False"

\* eval(step, None, {"__obj": obj}): "True", "False", or "raise"
Eval(body, obj) ==
    LET p == Predicate(body)
        x == Subscripts(obj, p.keys)
    IN  IF p.kind # "cmp" THEN "raise"
        ELSE IF ~x.ok THEN "raise"
        ELSE Compare(x.v, p.op, p.n)

\* Truthy with a predicate that raises taken as true
Truthy_FailOpen(body, obj) == Eval(body, obj) # "False"

\* _filter, lines 166-171: r after the try statement
Truthy(body, obj) == Eval(body, obj) = "True"

----------------------------------------------------------------------------
(* The sorter step: _getattr and _sorter                                   *)

\* _getattr(obj, path): successive .get, None as soon as one fails
RECURSIVE GetChain(_, _)
GetChain(r, keys) ==
    IF keys = <<>> THEN r
    ELSE IF IsDict(r) THEN GetChain(Get(r, Head(keys)), Tail(keys))
    ELSE JNull

_getattr(obj, path) == GetChain(obj, split(path, "."))

\* the characters in code point order
AsciiOrder ==
    <<" ", "!", "#", "$", "'", "(", ")", "*", ",", "-", ".", "/",
      "0", "1", "2", "3", "4", "5", "6", "7", "8", "9", ":", ";", "<", "=",
      ">", "?", "@", "B", "Q", "[", "]", "_",
      "a", "b", "c", "d", "e", "f", "g", "h", "i", "j", "k", "l", "m", "n",
      "o", "p", "q", "r", "s", "t", "u", "v", "w", "x", "y", "z", "~">>

ord(c) == CHOOSE n \in 1..Len(AsciiOrder) : AsciiOrder[n] = c

\* least index at which the sequences a and b differ, 0 when one is a
\* prefix of the other
FirstDiff(a, b) ==
    LET m == IF Len(a) < Len(b) THEN Len(a) ELSE Len(b)
        D == {n \in 1..m : a[n] # b[n]}
    IN  IF D = {} THEN 0 ELSE CHOOSE n \in D : \A k \in D : n <= k

\* a < b does not raise TypeError
RECURSIVE Comparable(_, _)
Comparable(a, b) ==
    IF a.t = "int" /\ b.t = "int" THEN TRUE
    ELSE IF a.t = "str" /\ b.t = "str" THEN TRUE
    ELSE IF a.t = "list" /\ b.t = "list"
         THEN LET d == FirstDiff(a.xs, b.xs)
              IN  d = 0 \/ Comparable(a.xs[d].v, b.xs[d].v)
    ELSE FALSE

\* a < b, for comparable a and b
RECURSIVE Less(_, _)
Less(a, b) ==
    IF a.t = "int" THEN a.n < b.n
    ELSE IF a.t = "str"
         THEN LET d == FirstDiff(a.s, b.s)
              IN  IF d = 0 THEN Len(a.s) < Len(b.s)
                  ELSE ord(a.s[d]) < ord(b.s[d])
    ELSE LET d == FirstDiff(a.xs, b.xs)
         IN  IF d = 0 THEN Len(a.xs) < Len(b.xs)
             ELSE Less(a.xs[d].v, b.xs[d].v)

\* x put into the stably sorted sequence done, behind the elements it does
\* not precede
RECURSIVE Insert(_, _, _)
Insert(done, x, reverse) ==
    IF done = <<>> THEN <<x>>
    ELSE IF (IF reverse THEN Less(Head(done).key, x.key)
             ELSE Less(x.key, Head(done).key))
         THEN <<x>> \o done
         ELSE <<Head(done)>> \o Insert(Tail(done), x, reverse)

RECURSIVE StableSort(_, _)
StableSort(xs, reverse) ==
    IF xs = <<>> THEN <<>>
    ELSE Insert(StableSort(SubSeq(xs, 1, Len(xs) - 1), reverse),
                xs[Len(xs)], reverse)

\* obj.sort(key=lambda t: _getattr(t[1], k), reverse=...) for one sortby.
\* list.sort raises TypeError when a comparison it makes is unsupported;
\* with two or more elements every element takes part in a comparison.
SortBy(pairs, sortby) ==
    LET reverse == startswith(sortby, <<"~">>)
        k == IF reverse THEN Tail(sortby) ELSE sortby
        keyed == [n \in 1..Len(pairs) |->
                     [key |-> _getattr(pairs[n].v, k), pair |-> pairs[n]]]
        sorted == StableSort(keyed, reverse)
    IN  IF \E m, n \in 1..Len(pairs) :
              m < n /\ ~Comparable(keyed[m].key, keyed[n].key)
        THEN [exc |-> "TypeError", pairs |-> pairs]
        ELSE [exc |-> "none",
              pairs |-> [n \in 1..Len(pairs) |-> sorted[n].pair]]

\* the loop of _sorter over the sortbys still to apply, last one first
RECURSIVE SortLoop(_, _)
SortLoop(pairs, sortbys) ==
    IF sortbys = <<>> THEN [exc |-> "none", pairs |-> pairs]
    ELSE LET r == SortBy(pairs, sortbys[Len(sortbys)])
         IN  IF r.exc # "none" THEN r
             ELSE SortLoop(r.pairs, SubSeq(sortbys, 1, Len(sortbys) - 1))

_sorter(pairs, sortbys) == SortLoop(pairs, split(sortbys, ","))

----------------------------------------------------------------------------
(* The field-extractor step                                                *)

\* obj_[k] = v on the entries es of a dict
SetItem(es, k, v) ==
    IF \E n \in 1..Len(es) : es[n].k = k
    THEN [n \in 1..Len(es) |-> IF es[n].k = k THEN [k |-> k, v |-> v] ELSE es[n]]
    ELSE Append(es, [k |-> k, v |-> v])

\* Extract with the keys obj does not have left out
RECURSIVE Extract_SkipMissing(_, _, _)
Extract_SkipMissing(obj, keys, es) ==
    IF keys = <<>> THEN JDict(es)
    ELSE Extract_SkipMissing(obj, Tail(keys),
            IF HasKey(obj, Head(keys))
            THEN SetItem(es, Head(keys), Item(obj, Head(keys)))
            ELSE es)

\* lines 257-259: obj_ after the loop over the keys
RECURSIVE Extract(_, _, _)
Extract(obj, keys, es) ==
    IF keys = <<>> THEN JDict(es)
    ELSE Extract(obj, Tail(keys), SetItem(es, Head(keys), Get(obj, Head(keys))))

----------------------------------------------------------------------------
(* The evaluator: _trace, _traverse, _filter                               *)
(*                                                                         *)
(* A call returns [out, exc]: out is the sequence of the stores it makes   *)
(* (line 183-189), each with the value and the path at hand, and exc is    *)
(* "none" or the name of the exception that ended the call.                *)

Store(obj, path) == [out |-> <<[v |-> obj, p |-> path]>>, exc |-> "none"]

Nothing == [out |-> <<>>, exc |-> "none"]

Raise(e) == [out |-> <<>>, exc |-> e]

\* the statement a followed by the statement b
Then(a, b) ==
    IF a.exc # "none" THEN a ELSE [out |-> a.out \o b.out, exc |-> b.exc]

\* the pairs (k, obj[k]) of the select step, lines 226-227
RECURSIVE SelectPairs(_, _)
SelectPairs(obj, ks) ==
    IF ks = <<>> THEN <<>>
    ELSE (IF HasKey(obj, Head(ks))
          THEN <<[k |-> Head(ks), v |-> Item(obj, Head(ks))]>>
          ELSE <<>>) \o SelectPairs(obj, Tail(ks))

RECURSIVE _trace(_, _, _, _)
RECURSIVE _filter(_, _, _, _, _)
RECURSIVE ForEach(_, _, _, _, _, _)

\* for k, v in pairs: f(v, i, f"{path};{k}", *args), f being _trace or
\* _filter
ForEach(f, pairs, i, path, arg, self) ==
    IF pairs = <<>> THEN Nothing
    ELSE LET h == Head(pairs)
         IN  Then(IF f = "_filter"
                  THEN _filter(h.v, i, Extend(path, h.k), arg, self)
                  ELSE _trace(h.v, i, Extend(path, h.k), self),
                  ForEach(f, Tail(pairs), i, path, arg, self))

_traverse(f, obj, i, path, arg, self) ==
    ForEach(f, Children(obj), i, path, arg, self)

_filter(obj, i, path, step, self) ==
    IF Truthy(step, obj) THEN _trace(obj, i, path, self) ELSE Nothing

\* lines 240-251
SorterStep(obj, i, path, step, self) ==
    IF IsList(obj) \/ IsDict(obj)
    THEN LET s == _sorter(Children(obj), SubSeq(step, 3, Len(step) - 1))
         IN  IF s.exc # "none" THEN Raise(s.exc)
             ELSE ForEach("_trace", s.pairs, i + 1, path, <<>>, self)
    ELSE Raise("ExprSyntaxError")

\* lines 255-264
ExtractorStep(obj, i, path, step, self) ==
    IF IsDict(obj)
    THEN _trace(Extract(obj, split(SubSeq(step, 2, Len(step) - 1), ","), <<>>),
                i + 1, path, self)
    ELSE Raise("ExprSyntaxError")

\* lines 232-236
FilterStep(obj, i, path, step, self) ==
    LET body == SubSeq(step, 3, Len(step) - 1)
    IN  IF Predicate(body).kind = "len" THEN Raise("AttributeError")
        ELSE _traverse("_filter", obj, i + 1, path, body, self)

\* DescentStep that goes on to the next step below the children
DescentStep_Shallow(obj, i, path, self) ==
    Then(_trace(obj, i + 1, path, self),
         _traverse("_trace", obj, i + 1, path, <<>>, self))

\* lines 199-202
DescentStep(obj, i, path, self) ==
    Then(_trace(obj, i + 1, path, self),
         _traverse("_trace", obj, i, path, <<>>, self))

_trace(obj, i, path, self) ==
    IF i >= self.lpath THEN Store(obj, path)
    ELSE LET step == self.segments[i + 1]
         IN  IF step = <<"*">>
             THEN _traverse("_trace", obj, i + 1, path, <<>>, self)
             ELSE IF step = <<".", ".">>
             THEN DescentStep(obj, i, path, self)
             ELSE IF IsList(obj) /\ isdigit(step)
             THEN (IF int(step) < len(obj)
                   THEN _trace(Elem(obj, int(step)), i + 1,
                               Extend(path, step), self)
                   ELSE Nothing)
             ELSE IF IsDict(obj) /\ HasKey(obj, step)
             THEN _trace(Item(obj, step), i + 1, Extend(path, step), self)
             ELSE IF IsList(obj) /\ IsSlice(step)
             THEN LET s == SlicePairs(Children(obj), step)
                  IN  IF s.exc # "none" THEN Raise(s.exc)
                      ELSE ForEach("_trace", s.pairs, i + 1, path, <<>>, self)
             ELSE IF IsDict(obj) /\ IsSelect(step)
             THEN ForEach("_trace", SelectPairs(obj, split(step, ",")),
                          i + 1, path, <<>>, self)
             ELSE IF startswith(step, <<"?", "(">>) /\ endswith(step, <<")">>)
             THEN FilterStep(obj, i, path, step, self)
             ELSE IF startswith(step, <<"/", "(">>) /\ endswith(step, <<")">>)
             THEN SorterStep(obj, i, path, step, self)
             ELSE IF startswith(step, <<"(">>) /\ endswith(step, <<")">>)
             THEN ExtractorStep(obj, i, path, step, self)
             ELSE Nothing

----------------------------------------------------------------------------
(* Inputs: the expressions and the documents the calls are made with       *)

\* $.a
E_Key == <<"$", ".", "a">>

\* $.*
E_Wild == <<"$", ".", "*">>

\* $..name
E_Name == <<"$", ".", ".", "n", "a", "m", "e">>

\* $[0]
E_Index == <<"$", "[", "0", "]">>

\* $[1:3]
E_Slice == <<"$", "[", "1", ":", "3", "]">>

\* $[:-1]
E_SliceEnd == <<"$", "[", ":", "-", "1", "]">>

\* $[::-1]
E_SliceRev == <<"$", "[", ":", ":", "-", "1", "]">>

\* $[::0]
E_SliceZero == <<"$", "[", ":", ":", "0", "]">>

\* $[a,name]
E_Select == <<"$", "[", "a", ",", "n", "a", "m", "e", "]">>

\* $[bicycle, scores]
E_SelectSpace == <<"$", "[", "b", "i", "c", "y", "c", "l", "e", ",", " ", "s", "c", "o", "r", "e", "s", "]">>

\* $[bicycle,scores]
E_SelectTight == <<"$", "[", "b", "i", "c", "y", "c", "l", "e", ",", "s", "c", "o", "r", "e", "s", "]">>

\* $[?(@.a>1)]
E_Filter == <<"$", "[", "?", "(", "@", ".", "a", ">", "1", ")", "]">>

\* $[?(@.missing > 5)]
E_FilterMissing == <<"$", "[", "?", "(", "@", ".", "m", "i", "s", "s", "i", "n", "g", " ", ">", " ", "5", ")", "]">>

\* $[?(len(@.a)>1)]
E_FilterLen == <<"$", "[", "?", "(", "l", "e", "n", "(", "@", ".", "a", ")", ">", "1", ")", "]">>

\* $.*[?(@.a>1)].a
E_FilterThen == <<"$", ".", "*", "[", "?", "(", "@", ".", "a", ">", "1", ")", "]", ".", "a">>

\* $[/(a)]
E_Sorter == <<"$", "[", "/", "(", "a", ")", "]">>

\* $[/(~a)]
E_SorterRev == <<"$", "[", "/", "(", "~", "a", ")", "]">>

\* $(a,b)
E_ExtractBare == <<"$", "(", "a", ",", "b", ")">>

\* $.(a,b)
E_Extract == <<"$", ".", "(", "a", ",", "b", ")">>

\* $.*.(a)
E_ExtractEach == <<"$", ".", "*", ".", "(", "a", ")">>

\* $['a;b']
E_QuoteSep == <<"$", "[", "'", "a", ";", "b", "'", "]">>

\* $['a.b']
E_QuoteDot == <<"$", "[", "'", "a", ".", "b", "'", "]">>

\* $[a..b]
E_BracketDots == <<"$", "[", "a", ".", ".", "b", "]">>

\* $['a']['name']
E_QuotePlain == <<"$", "[", "'", "a", "'", "]", "[", "'", "n", "a", "m", "e", "'", "]">>

Exprs ==
    {E_Key, E_Wild, E_Name, E_Index,
     E_Slice, E_SliceEnd, E_SliceRev, E_SliceZero,
     E_Select, E_SelectSpace, E_SelectTight, E_Filter,
     E_FilterMissing, E_FilterLen, E_FilterThen, E_Sorter,
     E_SorterRev, E_ExtractBare, E_Extract, E_ExtractEach,
     E_QuoteSep, E_QuoteDot, E_BracketDots, E_QuotePlain}

K_a == <<"a">>

K_name == <<"n", "a", "m", "e">>

K_b == <<"b">>

K_c == <<"c">>

K_bicycle == <<"b", "i", "c", "y", "c", "l", "e">>

K_scores == <<"s", "c", "o", "r", "e", "s">>

K_color == <<"c", "o", "l", "o", "r">>

K_sep == <<"a", ";", "b">>

K_dot == <<"a", ".", "b">>

K_dots == <<"a", ".", ".", "b">>

K_missing == <<"m", "i", "s", "s", "i", "n", "g">>

Red == <<"r", "e", "d">>

Root == <<"$">>

\* the largest number of nodes of a generated document
MaxNodes == 3

\* the integers of the generated documents are 1..MaxInt
MaxInt == 2

Keys == {K_a, K_name}

Scalars == {JNull} \cup {JInt(n) : n \in 1..MaxInt}

\* the sequences of n distinct keys
KeySeqs(n) ==
    {ks \in [1..n -> Keys] : \A p, q \in 1..n : p # q => ks[p] # ks[q]}

\* the entries of a dict with the keys ks and the values cs
Zip(ks, cs) == [m \in 1..Len(cs) |-> [k |-> ks[m], v |-> cs[m]]]

\* Gen[n].docs: the documents of exactly n nodes;
\* Gen[n].seqs: the sequences of documents of n nodes in all
Gen[n \in 0..MaxNodes] ==
    LET docs ==
            IF n = 0 THEN {}
            ELSE (IF n = 1 THEN Scalars ELSE {})
                 \cup {JList(cs) : cs \in Gen[n - 1].seqs}
                 \cup UNION {{JDict(Zip(ks, cs)) : ks \in KeySeqs(Len(cs))} :
                                cs \in Gen[n - 1].seqs}
        seqs ==
            IF n = 0 THEN {<<>>}
            ELSE UNION {{<<c>> \o r :
                            c \in (IF m = n THEN docs ELSE Gen[m].docs),
                            r \in Gen[n - m].seqs} : m \in 1..n}
    IN  [docs |-> docs, seqs |-> seqs]

GenDocs == UNION {Gen[n].docs : n \in 1..MaxNodes}

\* {"bicycle": {"color": "red"}, "scores": [1, 2, 3]}
D_Store ==
    JDict(<<[k |-> K_bicycle, v |-> JDict(<<[k |-> K_color, v |-> JStr(Red)]>>)],
            [k |-> K_scores, v |-> JList(<<JInt(1), JInt(2), JInt(3)>>)]>>)

\* {"a": 1, "c": 3}
D_AC == JDict(<<[k |-> K_a, v |-> JInt(1)], [k |-> K_c, v |-> JInt(3)]>>)

\* [10, 20, 30, 40]
D_Nums == JList(<<JInt(10), JInt(20), JInt(30), JInt(40)>>)

\* [{"a": 2}, {"a": 1}, {"a": 2, "name": 0}]
D_Sort ==
    JList(<<JDict(<<[k |-> K_a, v |-> JInt(2)]>>),
            JDict(<<[k |-> K_a, v |-> JInt(1)]>>),
            JDict(<<[k |-> K_a, v |-> JInt(2)], [k |-> K_name, v |-> JInt(0)]>>)>>)

\* {"name": {"a": 2}, "a": {"a": 1}}
D_SortDict ==
    JDict(<<[k |-> K_name, v |-> JDict(<<[k |-> K_a, v |-> JInt(2)]>>)],
            [k |-> K_a, v |-> JDict(<<[k |-> K_a, v |-> JInt(1)]>>)]>>)

\* [{"a": 1}, {"name": 2}]
D_SortMissing ==
    JList(<<JDict(<<[k |-> K_a, v |-> JInt(1)]>>),
            JDict(<<[k |-> K_name, v |-> JInt(2)]>>)>>)

\* [{"a": 2}, 1, {"name": 1}, {"a": 1}, {"a": null}, {"a": 3, "missing": 9}]
D_Filter ==
    JList(<<JDict(<<[k |-> K_a, v |-> JInt(2)]>>),
            JInt(1),
            JDict(<<[k |-> K_name, v |-> JInt(1)]>>),
            JDict(<<[k |-> K_a, v |-> JInt(1)]>>),
            JDict(<<[k |-> K_a, v |-> JNull]>>),
            JDict(<<[k |-> K_a, v |-> JInt(3)], [k |-> K_missing, v |-> JInt(9)]>>)>>)

\* {"name": {"a": 2}, "a": 3, "b": {"b": 1}, "c": {"a": 5}}
D_FilterDict ==
    JDict(<<[k |-> K_name, v |-> JDict(<<[k |-> K_a, v |-> JInt(2)]>>)],
            [k |-> K_a, v |-> JInt(3)],
            [k |-> K_b, v |-> JDict(<<[k |-> K_b, v |-> JInt(1)]>>)],
            [k |-> K_c, v |-> JDict(<<[k |-> K_a, v |-> JInt(5)]>>)]>>)

\* {"a;b": 1, "a.b": 2, "a..b": 3}
D_OddKeys ==
    JDict(<<[k |-> K_sep, v |-> JInt(1)], [k |-> K_dot, v |-> JInt(2)],
            [k |-> K_dots, v |-> JInt(3)]>>)

\* {"name": 1, "a": [{"name": 2}, {"a": {"name": {"name": 3}}}]}
D_Deep ==
    JDict(<<[k |-> K_name, v |-> JInt(1)],
            [k |-> K_a, v |->
                JList(<<JDict(<<[k |-> K_name, v |-> JInt(2)]>>),
                        JDict(<<[k |-> K_a, v |->
                            JDict(<<[k |-> K_name, v |->
                                JDict(<<[k |-> K_name, v |-> JInt(3)]>>)]>>)]>>)>>)]>>)

ExampleDocs ==
    {D_Store, D_AC, D_Nums, D_Sort, D_SortDict, D_SortMissing, D_Filter,
     D_FilterDict, D_OddKeys, D_Deep}

Docs == GenDocs \cup ExampleDocs

\* [[2, 1], {"a": 2}]
D_Later ==
    JList(<<JList(<<JInt(2), JInt(1)>>), JDict(<<[k |-> K_a, v |-> JInt(2)]>>)>>)

\* the documents a program goes on with after an example document;
\* D_Later is never the document of the first call
FollowDocs == {D_AC, D_Nums, D_Later}

\* the keys of JSONPath.RESULT_TYPE
RESULT_TYPE == {"VALUE", "PATH"}

\* the result_type arguments parse is called with
ModeInputs == RESULT_TYPE \cup {"XML"}

----------------------------------------------------------------------------
(* One thread: construct a JSONPath, then call parse any number of times   *)

NoThreads == <<>>

Init ==
    /\ subx = EmptySubx
    /\ expr = <<>>
    /\ segments = <<>>
    /\ lpath = 0
    /\ result_type = "unset"
    /\ result = <<>>
    /\ doc = JNull
    /\ ret = <<>>
    /\ outcome = "new"
    /\ pc = NoThreads
    /\ loc = NoThreads
    /\ heap = NoThreads
    /\ objs = NoThreads

\* JSONPath(e)
Construct(e) ==
    /\ outcome = "new"
    /\ LET c == Compile(e, subx)
       IN  /\ subx' = c.tab
           /\ expr' = e
           /\ segments' = c.segments
           /\ lpath' = Len(c.segments)
           /\ outcome' = IF c.ok THEN "ready" ELSE "IndexError"
    /\ UNCHANGED <<result_type, result, doc, ret, pc, loc, heap, objs>>

\* lines 183-187: the store of one value with its path
store(res, rt, ev) ==
    IF rt = "VALUE" THEN Append(res, ev.v)
    ELSE IF rt = "PATH" THEN Append(res, JStr(ev.p))
    ELSE res

RECURSIVE StoreAll(_, _, _)
StoreAll(res, rt, evs) ==
    IF evs = <<>> THEN res
    ELSE StoreAll(store(res, rt, Head(evs)), rt, Tail(evs))

\* parse_result without line 91
parse_result_NoReset(old, rt, evs) == StoreAll(old, rt, evs)

\* lines 91-92: self.result after self.result = [] and the call of _trace
\* that makes the stores evs
parse_result(old, rt, evs) == StoreAll(<<>>, rt, evs)

\* the documents of the next call of parse: any document at first, then
\* the same document again or, after an example, one of FollowDocs
NextDocs ==
    IF outcome = "ready" THEN Docs
    ELSE IF doc \in ExampleDocs THEN {doc} \cup FollowDocs
    ELSE {doc}

\* self.parse(d, m)
Parse(d, m) ==
    /\ outcome \notin {"new", "IndexError"}
    /\ doc' = d
    /\ IF ~(IsList(d) \/ IsDict(d))
       THEN /\ outcome' = "TypeError"
            /\ ret' = <<>>
            /\ UNCHANGED <<result_type, result>>
       ELSE IF m \notin RESULT_TYPE
       THEN /\ outcome' = "ValueError"
            /\ ret' = <<>>
            /\ UNCHANGED <<result_type, result>>
       ELSE LET t == _trace(d, 0, Root, [segments |-> segments, lpath |-> lpath])
                r == parse_result(result, m, t.out)
            IN  /\ result_type' = m
                /\ result' = r
                /\ outcome' = IF t.exc = "none" THEN "returned" ELSE t.exc
                /\ ret' = IF t.exc = "none" THEN r ELSE <<>>
    /\ UNCHANGED <<subx, expr, segments, lpath, pc, loc, heap, objs>>

Next ==
    \/ \E e \in Exprs : Construct(e)
    \/ \E d \in NextDocs, m \in ModeInputs : Parse(d, m)

Spec == Init /\ [][Next]_vars

----------------------------------------------------------------------------
(* Two threads call parse on one JSONPath object.                          *)
(*                                                                         *)
(* self.result is a reference: heap[result] is the list it refers to.  A   *)
(* thread runs lines 89, 91, then the stores of its call of _trace one by  *)
(* one, each reading self.result_type and self.result when it is made,     *)
(* then line 94.  The walk of _trace itself reads only self.segments and   *)
(* self.lpath, which no call assigns.                                      *)

Threads == {1, 2}

ThreadExprs == {E_Wild, E_Sorter}

\* [1]
D_One == JList(<<JInt(1)>>)

ThreadDocs == {D_AC, D_One, D_SortMissing}

IdleParse == [doc |-> JNull, mode |-> "unset", todo |-> <<>>, exc |-> "none", ret |-> 0]

InitParse ==
    /\ expr \in ThreadExprs
    /\ subx = Compile(expr, EmptySubx).tab
    /\ segments = Compile(expr, EmptySubx).segments
    /\ lpath = Len(segments)
    /\ result_type = "unset"
    /\ result = 0
    /\ doc = JNull
    /\ ret = <<>>
    /\ outcome = "ready"
    /\ pc = [t \in Threads |-> "idle"]
    /\ loc = [t \in Threads |-> IdleParse]
    /\ heap = <<>>
    /\ objs = NoThreads

\* thread t enters parse(d, m): lines 82-88 pass
Call(t, d, m) ==
    /\ pc[t] = "idle"
    /\ pc' = [pc EXCEPT ![t] = "line89"]
    /\ loc' = [loc EXCEPT ![t] = [IdleParse EXCEPT !.doc = d, !.mode = m]]
    /\ UNCHANGED <<subx, expr, segments, lpath, result_type, result, doc, ret,
                   outcome, heap, objs>>

\* line 89: self.result_type = result_type
SetType(t) ==
    /\ pc[t] = "line89"
    /\ result_type' = loc[t].mode
    /\ pc' = [pc EXCEPT ![t] = "line91"]
    /\ UNCHANGED <<subx, expr, segments, lpath, result, doc, ret, outcome,
                   loc, heap, objs>>

\* line 91: self.result = [], and line 92 up to the first store
NewList(t) ==
    /\ pc[t] = "line91"
    /\ heap' = Append(heap, <<>>)
    /\ result' = Len(heap) + 1
    /\ LET tr == _trace(loc[t].doc, 0, Root,
                        [segments |-> segments, lpath |-> lpath])
       IN  loc' = [loc EXCEPT ![t].todo = tr.out, ![t].exc = tr.exc]
    /\ pc' = [pc EXCEPT ![t] = "line92"]
    /\ UNCHANGED <<subx, expr, segments, lpath, result_type, doc, ret,
                   outcome, objs>>

\* lines 183-187: the next store of the call of _trace of thread t
StoreStep(t) ==
    /\ pc[t] = "line92"
    /\ loc[t].todo # <<>>
    /\ heap' = [heap EXCEPT ![result] = store(@, result_type, Head(loc[t].todo))]
    /\ loc' = [loc EXCEPT ![t].todo = Tail(@)]
    /\ UNCHANGED <<subx, expr, segments, lpath, result_type, result, doc, ret,
                   outcome, pc, objs>>

\* line 94: return self.result, or the exception of _trace leaves parse
Return(t) ==
    /\ pc[t] = "line92"
    /\ loc[t].todo = <<>>
    /\ IF loc[t].exc = "none"
       THEN /\ loc' = [loc EXCEPT ![t].ret = result]
            /\ pc' = [pc EXCEPT ![t] = "done"]
       ELSE /\ loc' = loc
            /\ pc' = [pc EXCEPT ![t] = "raised"]
    /\ UNCHANGED <<subx, expr, segments, lpath, result_type, result, doc, ret,
                   outcome, heap, objs>>

NextParse ==
    \/ \E t \in Threads, d \in ThreadDocs, m \in RESULT_TYPE : Call(t, d, m)
    \/ \E t \in Threads : SetType(t)
    \/ \E t \in Threads : NewList(t)
    \/ \E t \in Threads : StoreStep(t)
    \/ \E t \in Threads : Return(t)

SpecParse == InitParse /\ [][NextParse]_vars

----------------------------------------------------------------------------
(* Two threads construct JSONPath objects.                                 *)
(*                                                                         *)
(* JSONPath.subx is a class attribute, so both constructions work on the   *)
(* same two lists.  A thread runs _parse_expr; the callbacks of the two    *)
(* pick-up passes read the length of the list (lines 112, 117) and append  *)
(* to it (lines 113, 118) in separate steps.                               *)

CompileExprs == {E_Key, E_QuoteDot, E_QuotePlain, E_Select}

IdleCompile ==
    [e |-> <<>>, rest |-> <<>>, out |-> <<>>, n |-> 0,
     m |-> [at |-> 0, end |-> 0, group |-> <<>>]]

InitCompile ==
    /\ subx = EmptySubx
    /\ expr = <<>>
    /\ segments = <<>>
    /\ lpath = 0
    /\ result_type = "unset"
    /\ result = <<>>
    /\ doc = JNull
    /\ ret = <<>>
    /\ outcome = "new"
    /\ pc = [t \in Threads |-> "idle"]
    /\ loc = [t \in Threads |-> IdleCompile]
    /\ heap = NoThreads
    /\ objs = [t \in Threads |-> [ok |-> FALSE, segments |-> <<>>]]

UnchangedObject ==
    UNCHANGED <<expr, segments, lpath, result_type, result, doc, ret, outcome,
                heap>>

\* thread t calls JSONPath(e): line 99 begins
Begin(t, e) ==
    /\ pc[t] = "idle"
    /\ pc' = [pc EXCEPT ![t] = "line99"]
    /\ loc' = [loc EXCEPT ![t] = [IdleCompile EXCEPT !.e = e, !.rest = e]]
    /\ UNCHANGED <<subx, objs>>
    /\ UnchangedObject

\* line 112: n = len(self.subx["#Q"]), for the next match of line 99
QuoteLen(t) ==
    /\ pc[t] = "line99"
    /\ QuoteMatch(loc[t].rest).at # 0
    /\ loc' = [loc EXCEPT ![t].n = Len(subx.Q), ![t].m = QuoteMatch(loc[t].rest)]
    /\ pc' = [pc EXCEPT ![t] = "line113"]
    /\ UNCHANGED <<subx, objs>>
    /\ UnchangedObject

\* lines 113-114: the append, and the placeholder for the n read before
QuoteAppend(t) ==
    /\ pc[t] = "line113"
    /\ subx' = [subx EXCEPT !.Q = Append(@, loc[t].m.group)]
    /\ loc' = [loc EXCEPT
                 ![t].out = @ \o SubSeq(loc[t].rest, 1, loc[t].m.at - 1)
                              \o QuotePlaceholder(loc[t].n),
                 ![t].rest = SubSeq(@, loc[t].m.end + 1, Len(@))]
    /\ pc' = [pc EXCEPT ![t] = "line99"]
    /\ UNCHANGED objs
    /\ UnchangedObject

\* line 99 has no further match: line 100 begins
QuoteDone(t) ==
    /\ pc[t] = "line99"
    /\ QuoteMatch(loc[t].rest).at = 0
    /\ loc' = [loc EXCEPT ![t].rest = loc[t].out \o @, ![t].out = <<>>]
    /\ pc' = [pc EXCEPT ![t] = "line100"]
    /\ UNCHANGED <<subx, objs>>
    /\ UnchangedObject

\* line 117: n = len(self.subx["#B"]), for the next match of line 100
BracketLen(t) ==
    /\ pc[t] = "line100"
    /\ BracketMatch(loc[t].rest).at # 0
    /\ loc' = [loc EXCEPT ![t].n = Len(subx.B),
                          ![t].m = BracketMatch(loc[t].rest)]
    /\ pc' = [pc EXCEPT ![t] = "line118"]
    /\ UNCHANGED <<subx, objs>>
    /\ UnchangedObject

\* lines 118-119
BracketAppend(t) ==
    /\ pc[t] = "line118"
    /\ subx' = [subx EXCEPT !.B = Append(@, loc[t].m.group)]
    /\ loc' = [loc EXCEPT
                 ![t].out = @ \o SubSeq(loc[t].rest, 1, loc[t].m.at - 1)
                              \o BracketPlaceholder(loc[t].n),
                 ![t].rest = SubSeq(@, loc[t].m.end + 1, Len(@))]
    /\ pc' = [pc EXCEPT ![t] = "line100"]
    /\ UNCHANGED objs
    /\ UnchangedObject

\* line 100 has no further match: line 101 begins
BracketDone(t) ==
    /\ pc[t] = "line100"
    /\ BracketMatch(loc[t].rest).at = 0
    /\ loc' = [loc EXCEPT ![t].rest = loc[t].out \o @, ![t].out = <<>>]
    /\ pc' = [pc EXCEPT ![t] = "line101"]
    /\ UNCHANGED <<subx, objs>>
    /\ UnchangedObject

\* lines 101-109 and 77-78: the placeholders are put back from the lists
\* as they are now, and the object of thread t gets its segments
PutbackAndSplit(t) ==
    /\ pc[t] = "line101"
    /\ objs' = [objs EXCEPT ![t] = Finish(loc[t].rest, subx)]
    /\ pc' = [pc EXCEPT ![t] = "done"]
    /\ UNCHANGED <<subx, loc>>
    /\ UnchangedObject

NextCompile ==
    \/ \E t \in Threads, e \in CompileExprs : Begin(t, e)
    \/ \E t \in Threads : QuoteLen(t)
    \/ \E t \in Threads : QuoteAppend(t)
    \/ \E t \in Threads : QuoteDone(t)
    \/ \E t \in Threads : BracketLen(t)
    \/ \E t \in Threads : BracketAppend(t)
    \/ \E t \in Threads : BracketDone(t)
    \/ \E t \in Threads : PutbackAndSplit(t)

SpecCompile == InitCompile /\ [][NextCompile]_vars

----------------------------------------------------------------------------
(* Properties                                                              *)

IsContainer(d) == IsList(d) \/ IsDict(d)

\* a call of parse on a list or dict with a valid result_type has ended
Parsed == IsContainer(doc) /\ outcome \notin {"new", "ready", "ValueError"}

\* the object as _trace reads it
Self == [segments |-> segments, lpath |-> lpath]

\* the list parse(d, m) builds on the object when started on an empty list
ListOf(d, m) == StoreAll(<<>>, m, _trace(d, 0, Root, Self).out)

\* walking from obj along the path text s reaches the value target: s is
\* empty and obj is target, or s is the separator, then an index of the
\* list obj or a key of the dict obj, then a text that leads from that
\* element to target
RECURSIVE Reaches(_, _, _)
Reaches(obj, s, target) ==
    IF s = <<>> THEN obj = target
    ELSE /\ s[1] = SEP
         /\ \/ /\ IsList(obj)
               /\ \E L \in 1..(Len(s) - 1) :
                     /\ isdigit(SubSeq(s, 2, L + 1))
                     /\ int(SubSeq(s, 2, L + 1)) < len(obj)
                     /\ Reaches(Elem(obj, int(SubSeq(s, 2, L + 1))),
                                SubSeq(s, L + 2, Len(s)), target)
            \/ /\ IsDict(obj)
               /\ \E m \in 1..Len(obj.xs) :
                     /\ startswith(Tail(s), obj.xs[m].k)
                     /\ Reaches(obj.xs[m].v,
                                SubSeq(s, Len(obj.xs[m].k) + 2, Len(s)), target)

\* the PATH result p locates the value v in the document d
Resolves(d, p, v) == startswith(p, Root) /\ Reaches(d, Tail(p), v)

ModeSymmetric ==
    LET V == IF result_type = "VALUE" THEN ret ELSE ListOf(doc, "VALUE")
        P == IF result_type = "PATH" THEN ret ELSE ListOf(doc, "PATH")
    IN  /\ Len(V) = Len(P)
        /\ \A n \in 1..Len(P) : Resolves(doc, P[n].s, V[n])

IsExtractorStep(step) == startswith(step, <<"(">>) /\ endswith(step, <<")">>)

NoExtractorStep == \A n \in 1..Len(segments) : ~IsExtractorStep(segments[n])

\* C1 as claimed: whenever parse returns, the VALUE list and the PATH list of
\* the call have the same length, and walking the document from the root
\* along the segments of the i-th path gives the i-th value, for every
\* expression and document.
C1_ModeSymmetry == outcome = "returned" => ModeSymmetric

\* C1 amended: the same, for the expressions without a field-extractor step.
C1_ModeSymmetryAmended ==
    (outcome = "returned" /\ NoExtractorStep) => ModeSymmetric

\* the sorter has reordered three elements and their paths are returned
C1_Witness ==
    /\ outcome = "returned"
    /\ expr = E_Sorter
    /\ doc = D_Sort
    /\ result_type = "PATH"
    /\ Len(ret) = 3
    /\ ret[1] = JStr(<<"$", SEP, "1">>)

\* C2: when two threads call parse on the same object, a call that has
\* returned has returned exactly the list it returns when run alone.
C2_IndependentCalls ==
    \A t \in Threads :
        pc[t] = "done" =>
            heap[loc[t].ret] = ListOf(loc[t].doc, loc[t].mode)

\* C3: when two threads construct JSONPath objects, each object gets the
\* step sequence its expression compiles to when compiled alone.
C3_IndependentCompiles ==
    \A t \in Threads :
        pc[t] = "done" =>
            /\ objs[t].ok
            /\ objs[t].segments = Compile(loc[t].e, EmptySubx).segments

\* the keys of a comma-separated list, without the blank after a comma
ListedKeys(step) ==
    LET parts == split(step, ",")
    IN  [n \in 1..Len(parts) |-> Strip(parts[n])]

SelectExprs == {E_Select, E_SelectSpace, E_SelectTight}

\* C4: a comma-separated key list applied to a dict gives, in VALUE mode,
\* the values of the listed keys the dict has, in the order listed; so
\* $[bicycle, scores] on D_Store gives the two values.
C4_MultiKey ==
    (/\ outcome = "returned"
     /\ expr \in SelectExprs
     /\ IsDict(doc)
     /\ result_type = "VALUE")
    => LET want == SelectPairs(doc, ListedKeys(segments[1]))
       IN  /\ Len(ret) = Len(want)
           /\ \A n \in 1..Len(want) : ret[n] = want[n].v

\* {"a": 1, "b": null}
Projection == JDict(<<[k |-> K_a, v |-> JInt(1)], [k |-> K_b, v |-> JNull]>>)

Projects(e) ==
    (outcome = "returned" /\ expr = e /\ doc = D_AC)
    => /\ result_type = "VALUE" => ret = <<Projection>>
       /\ result_type = "PATH" => ret = <<JStr(Root)>>

\* C5 as claimed: $(a,b) on {"a": 1, "c": 3} returns the one value
\* {"a": 1, "b": null}, and in PATH mode the one path "$".
C5_BareExtractor == Projects(E_ExtractBare)

\* C5 amended: the expression $.(a,b) does so.
C5_DottedExtractor == Projects(E_Extract)

C5_Witness ==
    /\ outcome = "returned"
    /\ expr = E_Extract
    /\ doc = D_AC
    /\ result_type = "PATH"
    /\ Len(ret) = 1

\* the contents of the quoted literals and of the bracket groups of e
Literals(e) ==
    LET q == PickupQuotes(e, EmptySubx)
        b == PickupBrackets(q.s, q.tab)
    IN  {b.tab.Q[n] : n \in 1..Len(b.tab.Q)}
        \cup {PutbackQuotes(b.tab.B[n], b.tab).s : n \in 1..Len(b.tab.B)}

SeparatorLike(l) == Contains(l, <<".">>) \/ Contains(l, <<SEP>>)

\* C6: every quoted literal or bracket group of the expression that contains
\* a dot or the separator is found verbatim inside one step of the compiled
\* step sequence.
C6_RoundTrip ==
    outcome = "ready" =>
        \A l \in Literals(expr) :
            SeparatorLike(l) =>
                \E n \in 1..Len(segments) : Contains(segments[n], l)

\* every node of obj with its path
RECURSIVE Nodes(_, _)
Nodes(obj, path) ==
    {[p |-> path, v |-> obj]}
    \cup UNION {Nodes(obj.xs[m].v,
                      path \o <<SEP>> \o (IF IsList(obj) THEN str(m - 1)
                                          ELSE obj.xs[m].k)) :
                   m \in 1..Len(obj.xs)}

\* the dicts of d that have the key name
Holders(d) == {n \in Nodes(d, Root) : IsDict(n.v) /\ HasKey(n.v, K_name)}

\* C7: $..name on a list or dict ends by returning, with one result for each
\* dict of the document that has the key name, no more and no fewer.
C7_RecursiveDescent ==
    (expr = E_Name /\ Parsed)
    => /\ outcome = "returned"
       /\ Len(ret) = Cardinality(Holders(doc))
       /\ result_type = "PATH" =>
             {ret[n] : n \in 1..Len(ret)} =
                 {JStr(Extend(h.p, K_name)) : h \in Holders(doc)}
       /\ result_type = "VALUE" =>
             {ret[n] : n \in 1..Len(ret)} =
                 {Item(h.v, K_name) : h \in Holders(doc)}

C7_Witness ==
    /\ outcome = "returned"
    /\ expr = E_Name
    /\ doc = D_Deep
    /\ result_type = "PATH"
    /\ Len(ret) = 4

\* the text of the predicate of the first step
FilterBody == SubSeq(segments[1], 3, Len(segments[1]) - 1)

\* the children of d for which the predicate is true
Passing(d) ==
    LET Pass(c) == Eval(FilterBody, c.v) = "True"
    IN  SelectSeq(Children(d), Pass)

\* d without the children for which the predicate raises
Pruned(d) ==
    LET Keep(c) == Eval(FilterBody, c.v) # "raise"
        kept == SelectSeq(d.xs, Keep)
    IN  [d EXCEPT !.xs = kept]

C9_SorterMissingField ==
    (expr \in {E_Sorter, E_SorterRev} /\ Parsed)
    => /\ outcome = "returned"
       /\ Len(ret) = len(doc)
       /\ result_type = "PATH" =>
             \A m \in 1..len(doc) :
                 \E n \in 1..Len(ret) :
                     ret[n] = JStr(Extend(Root, Children(doc)[m].k))

\* the list a newly constructed object of the same expression returns
FreshList ==
    LET c == Compile(expr, subx)
    IN  StoreAll(<<>>, result_type,
                 _trace(doc, 0, Root,
                        [segments |-> c.segments, lpath |-> Len(c.segments)]).out)

\* C10: no call of parse, returning or raising, changes the segments or
\* lpath of the object or the document it is given, and whatever calls were
\* made before, a call that returns returns the list a newly compiled
\* JSONPath of the same expression returns for it.
C10_Reuse ==
    /\ [](outcome = "returned" => ret = FreshList)
    /\ [][outcome # "new" =>
             /\ segments' = segments
             /\ lpath' = lpath
             /\ expr' = expr]_vars

\* a later call on the object has returned a non-empty list
C10_Witness ==
    /\ outcome = "returned"
    /\ doc = D_Later
    /\ ret # <<>>

====
